---- MODULE Spec2Model ----
(***************************************************************************)
(* The bytecode virtual machine of orion_lang (src/src/vm.c): the growable *)
(* value stack, the fetch / dispatch loop of run() and runtimeError().     *)
(*                                                                         *)
(* The instruction stream is read strictly left to right, once (there are  *)
(* no jumps), so the bytes of the chunk, and the place where its code ends, *)
(* are drawn when the cursor reaches them: this generates the same runs as *)
(* drawing the whole chunk beforehand.                                     *)
(***************************************************************************)
EXTENDS Integers, Sequences, FiniteSets, TLC

\* ------------------------------------------------------------------ bounds
\* Instructions one VM fetches in its lifetime, over all calls of
\* interpretChunk(), before the model stops it.
MaxFetch == 4
\* Initial capacity of the stack (vm.h is not part of the sources; the
\* model uses a small capacity so that reallocation happens early).
STACK_DEF_CAP == 1

\* ------------------------------------------------------------------ doubles
\* A double is a sign bit and a magnitude n/d in lowest terms:
\* d = 0, n = 1 is an infinity, d = 0, n = 0 is NaN, n = 0, d = 1 is a
\* (signed) zero.  Arithmetic on the finite values is exact.
RECURSIVE Gcd(_, _)
Gcd(x, y) == IF y = 0 THEN x ELSE Gcd(y, x % y)

NaN == [neg |-> FALSE, n |-> 0, d |-> 0]

Norm(neg, n, d) ==
    IF n = 0 /\ d = 0 THEN NaN
    ELSE LET g == Gcd(n, d) IN [neg |-> neg, n |-> n \div g, d |-> d \div g]

NumInt(i) == IF i < 0 THEN [neg |-> TRUE, n |-> -i, d |-> 1]
                      ELSE [neg |-> FALSE, n |-> i, d |-> 1]

IsNaN(x) == x.n = 0 /\ x.d = 0
IsInf(x) == x.n # 0 /\ x.d = 0

\* signed numerator of x over the common denominator x.d * y.d
Signed(x, y) == IF x.neg THEN -(x.n * y.d) ELSE x.n * y.d
Abs(i) == IF i < 0 THEN -i ELSE i

NumNeg(x) == IF IsNaN(x) THEN NaN ELSE [x EXCEPT !.neg = ~x.neg]

NumAdd(x, y) ==
    IF IsNaN(x) \/ IsNaN(y) THEN NaN
    ELSE IF IsInf(x) /\ IsInf(y) THEN (IF x.neg = y.neg THEN x ELSE NaN)
    ELSE IF IsInf(x) THEN x
    ELSE IF IsInf(y) THEN y
    ELSE LET s == Signed(x, y) + Signed(y, x)
         IN  IF s = 0 THEN [neg |-> x.neg /\ y.neg, n |-> 0, d |-> 1]
             ELSE Norm(s < 0, Abs(s), x.d * y.d)

NumSub(x, y) == NumAdd(x, NumNeg(y))

NumMult(x, y) ==
    IF IsNaN(x) \/ IsNaN(y) THEN NaN
    ELSE Norm(x.neg # y.neg, x.n * y.n, x.d * y.d)

NumDiv(x, y) ==
    IF IsNaN(x) \/ IsNaN(y) THEN NaN
    ELSE Norm(x.neg # y.neg, x.n * y.d, x.d * y.n)

NumLess(x, y) ==
    IF IsNaN(x) \/ IsNaN(y) THEN FALSE
    ELSE IF IsInf(x) /\ IsInf(y) THEN x.neg /\ ~y.neg
    ELSE Signed(x, y) < Signed(y, x)

NumEq(x, y) ==
    IF IsNaN(x) \/ IsNaN(y) THEN FALSE
    ELSE IF IsInf(x) /\ IsInf(y) THEN x.neg = y.neg
    ELSE Signed(x, y) = Signed(y, x)

NumGreater(x, y) == NumLess(y, x)
NumLessEq(x, y) == NumLess(x, y) \/ NumEq(x, y)
NumGreaterEq(x, y) == NumLess(y, x) \/ NumEq(x, y)
NumNotEq(x, y) == ~NumEq(x, y)

\* ------------------------------------------------------------------ values
NIL_VAL == [type |-> "VAL_NIL"]
BOOL_VAL(v) == [type |-> "VAL_BOOL", boolean |-> v]
NUMBER_VAL(v) == [type |-> "VAL_NUMBER", number |-> v]
\* an uninitialised slot of the buffer (malloc / realloc do not clear)
UNINIT == [type |-> "uninit"]

IS_NUMBER(v) == v.type = "VAL_NUMBER"
AS_NUMBER(v) == v.number
AS_BOOL(v) == v.boolean

\* mutant: the number zero is falsey as well, as it is in C
isFalseyValueOrZero(v) ==
    \/ v.type = "VAL_NIL"
    \/ v.type = "VAL_BOOL" /\ ~v.boolean
    \/ v.type = "VAL_NUMBER" /\ v.number.n = 0 /\ v.number.d = 1

\* truthiness: nil and false are falsey, everything else is truthy
isFalseyValue(v) == v.type = "VAL_NIL" \/ (v.type = "VAL_BOOL" /\ ~v.boolean)
toBool(v) == ~isFalseyValue(v)


\* ------------------------------------------------------------------ chunk
\* opcodes (chunk.h is not part of the sources: the numbering is the order
\* of the cases in run(); NoOpcode stands for every byte that is no opcode)
OP_RET == 0
OP_CONSTANT == 1
OP_TRUE == 2
OP_FALSE == 3
OP_NIL == 4
OP_NEGATE == 5
OP_INC == 6
OP_DEC == 7
OP_NOT == 8
OP_AND == 9
OP_OR == 10
OP_XOR == 11
OP_EQUAL == 12
OP_NOT_EQUAL == 13
OP_GREATER_EQUAL == 14
OP_GREATER == 15
OP_LESS_EQUAL == 16
OP_LESS == 17
OP_ADD == 18
OP_SUB == 19
OP_MULT == 20
OP_DIV == 21
NoOpcode == 22
Bytes == 0..NoOpcode

\* the constant pool of every chunk: vm->chunk->constants.data
ConstantPool == <<NUMBER_VAL(NumInt(0)), NUMBER_VAL(NumInt(1)),
                  NUMBER_VAL(NumInt(2)), NUMBER_VAL(NumInt(5)), NIL_VAL>>
\* the operand of OP_CONSTANT is an index of the pool
PoolIndices == 0..(Len(ConstantPool) - 1)
\* vm->chunk->lines: one source line per byte of code
LineOf(offset) == offset + 1

\* what a read of the slot before the buffer of the stack may yield: some
\* value that is not a number, or some number
Garbage == {NIL_VAL, NUMBER_VAL(NumInt(1))}

\* ------------------------------------------------------------------ state
VARIABLES
    stack,        \* vm->stack: [data, count, capacity]
    ip,           \* vm->ip, as an offset into vm->chunk->data
    chunk,        \* vm->chunk: [ended |-> the cursor has reached the end of
                  \*   the code]
    instruction,  \* run(): the byte fetched last
    a, b,         \* run(): the operands popped by the binary handlers
    pc,           \* "idle", "fetch", "dispatch", "returned", "aborted", "crashed"
    res,          \* the InterpretResult returned last
    out,          \* values printed on stdout by the current call
    err,          \* diagnostics printed on stderr by the current call
    fetched,      \* instructions fetched so far, over all calls
    oob           \* the buffers the last step read or wrote outside their
                  \*   bounds: "stack", "code"

vars == <<stack, ip, chunk, instruction, a, b, pc, res, out, err, fetched, oob>>

NoValue == [type |-> "none"]

\* ------------------------------------------------------------------ stack
\* stack->data[i], i counted from 0
Slot(s, i) == s.data[i + 1]

isStackEmpty(s) == s.count = 0
\* mutant: the test for a full stack is late by one
isStackFullLate(s) == s.count > s.capacity
isStackFull(s) == s.count = s.capacity

\* mutant: the new buffer does not get the old contents
GrowArrayLosing(data, capacity) == [i \in 1..capacity |-> UNINIT]

\* GROW_ARRAY: realloc keeps the old contents, the new slots are uninitialised
GrowArray(data, capacity) ==
    [i \in 1..capacity |-> IF i <= Len(data) THEN data[i] ELSE UNINIT]

\* mutant: a full buffer grows by one slot
pushStackGrowingByOne(s, value) ==
    LET g == IF isStackFull(s)
             THEN [s EXCEPT !.capacity = s.capacity + 1,
                            !.data = GrowArray(s.data, s.capacity + 1)]
             ELSE s
    IN  [g EXCEPT !.data[g.count + 1] = value, !.count = g.count + 1]

pushStack(s, value) ==
    LET g == IF isStackFull(s)
             THEN [s EXCEPT !.capacity = 2 * s.capacity,
                            !.data = GrowArray(s.data, 2 * s.capacity)]
             ELSE s
    IN  [g EXCEPT !.data[g.count + 1] = value, !.count = g.count + 1]

\* popStack without its assertion: the callers test isStackEmpty first
popStack(s) == [s EXCEPT !.count = s.count - 1]
popped(s) == Slot(s, s.count - 1)

peekStack(s, distance) == Slot(s, s.count - 1 - distance)

resetStack(s) == [s EXCEPT !.count = 0]

initStack == [capacity |-> STACK_DEF_CAP, count |-> 0,
              data |-> [i \in 1..STACK_DEF_CAP |-> UNINIT]]

\* ------------------------------------------------------------------ VM
\* initVM
Init ==
    /\ stack = initStack
    /\ ip = 0
    /\ chunk = [ended |-> FALSE]
    /\ instruction = NoOpcode
    /\ a = NoValue
    /\ b = NoValue
    /\ pc = "idle"
    /\ res = "none"
    /\ out = <<>>
    /\ err = <<>>
    /\ fetched = 0
    /\ oob = {}

\* interpretChunk, compile() succeeds: run() starts on a new chunk
Interpret ==
    /\ pc \in {"idle", "returned"}
    /\ fetched < MaxFetch
    /\ chunk' = [ended |-> FALSE]
    /\ ip' = 0
    /\ pc' = "fetch"
    /\ res' = "none"
    /\ out' = <<>>
    /\ err' = <<>>
    /\ oob' = {}
    /\ UNCHANGED <<stack, instruction, a, b, fetched>>

\* mutant: the cursor is set before the result of compile() is tested
InterpretCompileErrorAfterSetup ==
    /\ pc \in {"idle", "returned"}
    /\ pc' = "returned"
    /\ res' = "INTERPRET_COMPILE_ERROR"
    /\ ip' = 0
    /\ out' = <<>>
    /\ err' = <<>>
    /\ oob' = {}
    /\ UNCHANGED <<stack, chunk, instruction, a, b, fetched>>

\* interpretChunk, compile() fails
InterpretCompileError ==
    /\ pc \in {"idle", "returned"}
    /\ pc' = "returned"
    /\ res' = "INTERPRET_COMPILE_ERROR"
    /\ out' = <<>>
    /\ err' = <<>>
    /\ oob' = {}
    /\ UNCHANGED <<stack, ip, chunk, instruction, a, b, fetched>>

\* *vm->ip: the byte under the cursor is a byte of the code, or the cursor
\* is at or after the end of the code (nothing in run() tests for it) and
\* the read is outside the chunk
ReadCode(inside) ==
    /\ inside => ~chunk.ended
    /\ chunk' = [ended |-> ~inside]

\* run(): instruction = *vm->ip; vm->ip++.  A read outside the chunk yields
\* any byte, or the process crashes.
Fetch(byte, inside) ==
    /\ pc = "fetch"
    /\ fetched < MaxFetch
    /\ ReadCode(inside)
    /\ instruction' = byte
    /\ ip' = ip + 1
    /\ fetched' = fetched + 1
    /\ a' = NoValue
    /\ b' = NoValue
    /\ oob' = IF inside THEN {} ELSE {"code"}
    /\ \/ pc' = "dispatch"
       \/ ~inside /\ pc' = "crashed"
    /\ UNCHANGED <<stack, res, out, err>>

\* mutant: the caller does not return, the loop goes on
runtimeErrorGoesOn(message) ==
    /\ err' = Append(err, [message |-> message, line |-> LineOf(ip - 1)])
    /\ stack' = resetStack(stack)
    /\ pc' = "fetch"
    /\ res' = res

\* mutant: the line is the line of the byte under the cursor
runtimeErrorAtCursor(message) ==
    /\ err' = Append(err, [message |-> message, line |-> LineOf(ip)])
    /\ stack' = resetStack(stack)
    /\ pc' = "returned"
    /\ res' = "INTERPRET_RUNTIME_ERROR"

\* mutant: the stack is not reset
runtimeErrorNoReset(message) ==
    /\ err' = Append(err, [message |-> message, line |-> LineOf(ip - 1)])
    /\ stack' = stack
    /\ pc' = "returned"
    /\ res' = "INTERPRET_RUNTIME_ERROR"

\* runtimeError: the message and the line of byte ip - 1 go to stderr, the
\* stack is reset; the caller returns INTERPRET_RUNTIME_ERROR
runtimeError(message) ==
    /\ err' = Append(err, [message |-> message, line |-> LineOf(ip - 1)])
    /\ stack' = resetStack(stack)
    /\ pc' = "returned"
    /\ res' = "INTERPRET_RUNTIME_ERROR"

\* mutant: the assertion does nothing and the loop goes on
AssertIgnored ==
    /\ pc' = "fetch"
    /\ UNCHANGED <<res, err>>

\* assert(!isStackEmpty(stack)) fails: the process aborts
AssertFails ==
    /\ pc' = "aborted"
    /\ UNCHANGED <<res, err>>

\* the handler is done, the loop goes on
Break ==
    /\ pc' = "fetch"
    /\ UNCHANGED <<res, err>>

Dispatching(op) ==
    /\ pc = "dispatch"
    /\ instruction = op
    /\ UNCHANGED <<instruction, fetched>>

\* case OP_RET
OpRet ==
    /\ UNCHANGED chunk
    /\ Dispatching(OP_RET)
    /\ IF isStackEmpty(stack)
       THEN AssertFails /\ UNCHANGED <<stack, out>>
       ELSE /\ stack' = popStack(stack)
            /\ out' = Append(out, popped(stack))
            /\ pc' = "returned"
            /\ res' = "INTERPRET_OK"
            /\ UNCHANGED err
    /\ oob' = {}
    /\ UNCHANGED <<ip, a, b>>

\* mutant: the cursor is not moved past the operand
OpConstantNoAdvance(index, inside) ==
    /\ Dispatching(OP_CONSTANT)
    /\ ReadCode(inside)
    /\ LET constant == ConstantPool[index + 1]
       IN  /\ oob' = (IF inside THEN {} ELSE {"code"})
           /\ IF ~IS_NUMBER(constant)
              THEN runtimeError("Operand must be a number.") /\ UNCHANGED ip
              ELSE /\ ip' = ip
                   /\ stack' = pushStack(stack, constant)
                   /\ Break
    /\ UNCHANGED <<out, a, b>>

\* case OP_CONSTANT: the operand byte *vm->ip indexes the constant pool
OpConstant(index, inside) ==
    /\ Dispatching(OP_CONSTANT)
    /\ ReadCode(inside)
    /\ LET constant == ConstantPool[index + 1]
       IN  /\ oob' = (IF inside THEN {} ELSE {"code"})
           /\ IF ~IS_NUMBER(constant)
              THEN runtimeError("Operand must be a number.") /\ UNCHANGED ip
              ELSE /\ ip' = ip + 1
                   /\ stack' = pushStack(stack, constant)
                   /\ Break
    /\ UNCHANGED <<out, a, b>>

\* case OP_TRUE, OP_FALSE, OP_NIL
OpLiteral(op, value) ==
    /\ UNCHANGED chunk
    /\ Dispatching(op)
    /\ stack' = pushStack(stack, value)
    /\ Break
    /\ oob' = {}
    /\ UNCHANGED <<ip, out, a, b>>

NumInc(x) == NumAdd(x, NumInt(1))
NumDec(x) == NumSub(x, NumInt(1))

\* AS_NUMBER(*val) *= -1, ++, --
UnaryResult(op, x) ==
    CASE op = OP_NEGATE -> NumMult(x, NumInt(-1))
      [] op = OP_INC -> NumInc(x)
      [] op = OP_DEC -> NumDec(x)

\* mutant: the pointer addresses the slot below
peekStackReferenceBelow(s, distance) == s.count - 2 - distance

\* peekStackReference: the index of the slot the pointer addresses
peekStackReference(s, distance) == s.count - 1 - distance

\* case OP_NEGATE, OP_INC, OP_DEC: THROW_IF_NAN(*val), then update in place.
\* On an empty stack val addresses the slot before the buffer: the read
\* yields garbage, the write lands outside the buffer.
UnaryInPlace(op, garbage) ==
    /\ UNCHANGED chunk
    /\ Dispatching(op)
    /\ LET at == peekStackReference(stack, 0)
       IN  IF at < 0
           THEN /\ garbage \in Garbage
                /\ oob' = {"stack"}
                /\ IF ~IS_NUMBER(garbage)
                   THEN runtimeError("Operand must be a number.")
                   ELSE /\ UNCHANGED <<stack, res, err>>
                        /\ pc' \in {"fetch", "crashed"}
           ELSE /\ garbage = NIL_VAL
                /\ oob' = {}
                /\ IF ~IS_NUMBER(Slot(stack, at))
                   THEN runtimeError("Operand must be a number.")
                   ELSE /\ stack' = [stack EXCEPT !.data[at + 1] =
                                        NUMBER_VAL(UnaryResult(op, AS_NUMBER(Slot(stack, at))))]
                        /\ Break
    /\ UNCHANGED <<ip, out, a, b>>

\* case OP_NOT
OpNot ==
    /\ UNCHANGED chunk
    /\ Dispatching(OP_NOT)
    /\ IF isStackEmpty(stack)
       THEN AssertFails /\ UNCHANGED stack
       ELSE /\ stack' = pushStack(popStack(stack), BOOL_VAL(isFalseyValue(popped(stack))))
            /\ Break
    /\ oob' = {}
    /\ UNCHANGED <<ip, out, a, b>>

\* Value b = popStack(); Value a = popStack(); the second pop finds the
\* stack empty when it held one value
PopTwo ==
    IF isStackEmpty(stack)
    THEN AssertFails /\ UNCHANGED <<stack, a, b>>
    ELSE IF isStackEmpty(popStack(stack))
    THEN /\ AssertFails
         /\ stack' = popStack(stack)
         /\ b' = popped(stack)
         /\ UNCHANGED a
    ELSE /\ b' = popped(stack)
         /\ a' = popped(popStack(stack))

HasTwo == stack.count >= 2

\* toBool(a) op toBool(b) for op &&, || and ^
LogicResult(op, x, y) ==
    CASE op = OP_AND -> x /\ y
      [] op = OP_OR -> x \/ y
      [] op = OP_XOR -> x # y

\* BINARY_LOGIC_OP
BinaryLogicOp(op) ==
    /\ UNCHANGED chunk
    /\ Dispatching(op)
    /\ PopTwo
    /\ HasTwo =>
         /\ stack' = pushStack(popStack(popStack(stack)), BOOL_VAL(LogicResult(op, toBool(a'), toBool(b'))))
         /\ Break
    /\ oob' = {}
    /\ UNCHANGED <<ip, out>>

\* AS_BOOL(a) op AS_BOOL(b) and AS_NUMBER(a) op AS_NUMBER(b) for op == and !=
BoolCompare(op, x, y) == IF op = OP_EQUAL THEN x = y ELSE x # y
NumCompare(op, x, y) == IF op = OP_EQUAL THEN NumEq(x, y) ELSE NumNotEq(x, y)

\* mutant: the test of the tags is inverted
EqualityResultTagsInverted(op, va, vb) ==
    IF va.type # vb.type THEN BOOL_VAL(TRUE)
    ELSE CASE va.type = "VAL_NIL" -> BOOL_VAL(TRUE)
           [] va.type = "VAL_BOOL" -> BOOL_VAL(BoolCompare(op, AS_BOOL(va), AS_BOOL(vb)))
           [] va.type = "VAL_NUMBER" -> BOOL_VAL(NumCompare(op, AS_NUMBER(va), AS_NUMBER(vb)))
           [] OTHER -> BOOL_VAL(FALSE)

\* EQUALITY_OP(op): the value pushed for the operands va, vb
EqualityResult(op, va, vb) ==
    IF va.type # vb.type THEN BOOL_VAL(FALSE)
    ELSE CASE va.type = "VAL_NIL" -> BOOL_VAL(TRUE)
           [] va.type = "VAL_BOOL" -> BOOL_VAL(BoolCompare(op, AS_BOOL(va), AS_BOOL(vb)))
           [] va.type = "VAL_NUMBER" -> BOOL_VAL(NumCompare(op, AS_NUMBER(va), AS_NUMBER(vb)))
           [] OTHER -> BOOL_VAL(FALSE)

EqualityOp(op) ==
    /\ UNCHANGED chunk
    /\ Dispatching(op)
    /\ PopTwo
    /\ HasTwo =>
         /\ stack' = pushStack(popStack(popStack(stack)), EqualityResult(op, a', b'))
         /\ Break
    /\ oob' = {}
    /\ UNCHANGED <<ip, out>>

\* RESULT_VAL(a op b), as each case of run() expands BINARY_OP
BinaryExpansion(op, x, y) ==
    CASE op = OP_GREATER_EQUAL -> BOOL_VAL(NumGreater(x, y))
      [] op = OP_GREATER -> BOOL_VAL(NumGreater(x, y))
      [] op = OP_LESS_EQUAL -> BOOL_VAL(NumLessEq(x, y))
      [] op = OP_LESS -> BOOL_VAL(NumLess(x, y))
      [] op = OP_ADD -> NUMBER_VAL(NumAdd(x, y))
      [] op = OP_SUB -> NUMBER_VAL(NumSub(x, y))
      [] op = OP_MULT -> NUMBER_VAL(NumMult(x, y))
      [] op = OP_DIV -> NUMBER_VAL(NumDiv(x, y))

\* mutant: the operands are swapped
BinaryResultSwapped(op, va, vb) == BinaryExpansion(op, AS_NUMBER(vb), AS_NUMBER(va))

\* pushStack(&vm->stack, RESULT_VAL(a op b)) for the popped a and b
BinaryResult(op, va, vb) == BinaryExpansion(op, AS_NUMBER(va), AS_NUMBER(vb))

\* BINARY_OP: both operands are tested with peekStack before they are popped.
\* peekStack asserts only that the stack is not empty: with one value on the
\* stack peekStack(1) reads the slot before the buffer.
BinaryOp(op, garbage) ==
    /\ UNCHANGED chunk
    /\ Dispatching(op)
    /\ IF isStackEmpty(stack)
       THEN /\ AssertFails
            /\ garbage = NIL_VAL
            /\ oob' = {}
            /\ UNCHANGED <<stack, a, b>>
       ELSE IF ~IS_NUMBER(peekStack(stack, 0))
       THEN /\ runtimeError("Operands must be numbers.")
            /\ garbage = NIL_VAL
            /\ oob' = {}
            /\ UNCHANGED <<a, b>>
       ELSE IF stack.count = 1
       THEN /\ garbage \in Garbage
            /\ oob' = {"stack"}
            /\ IF ~IS_NUMBER(garbage)
               THEN runtimeError("Operands must be numbers.") /\ UNCHANGED <<a, b>>
               ELSE PopTwo
       ELSE IF ~IS_NUMBER(peekStack(stack, 1))
       THEN /\ runtimeError("Operands must be numbers.")
            /\ garbage = NIL_VAL
            /\ oob' = {}
            /\ UNCHANGED <<a, b>>
       ELSE /\ PopTwo
            /\ garbage = NIL_VAL
            /\ oob' = {}
            /\ stack' = pushStack(popStack(popStack(stack)),
                                  BinaryResult(op, a', b'))
            /\ Break
    /\ UNCHANGED <<ip, out>>

\* no case of the switch matches: the loop goes on with the next byte
OpUnknown ==
    /\ UNCHANGED chunk
    /\ Dispatching(NoOpcode)
    /\ Break
    /\ oob' = {}
    /\ UNCHANGED <<stack, ip, out, a, b>>

OpConstantStep ==
    \E index \in PoolIndices, inside \in BOOLEAN : OpConstant(index, inside)
OpTrue == OpLiteral(OP_TRUE, BOOL_VAL(TRUE))
OpFalse == OpLiteral(OP_FALSE, BOOL_VAL(FALSE))
OpNil == OpLiteral(OP_NIL, NIL_VAL)
OpNegate == \E g \in Garbage : UnaryInPlace(OP_NEGATE, g)
OpInc == \E g \in Garbage : UnaryInPlace(OP_INC, g)
OpDec == \E g \in Garbage : UnaryInPlace(OP_DEC, g)
OpAnd == BinaryLogicOp(OP_AND)
OpOr == BinaryLogicOp(OP_OR)
OpXor == BinaryLogicOp(OP_XOR)
OpEqual == EqualityOp(OP_EQUAL)
OpNotEqual == EqualityOp(OP_NOT_EQUAL)
OpGreaterEqual == \E g \in Garbage : BinaryOp(OP_GREATER_EQUAL, g)
OpGreater == \E g \in Garbage : BinaryOp(OP_GREATER, g)
OpLessEqual == \E g \in Garbage : BinaryOp(OP_LESS_EQUAL, g)
OpLess == \E g \in Garbage : BinaryOp(OP_LESS, g)
OpAdd == \E g \in Garbage : BinaryOp(OP_ADD, g)
OpSub == \E g \in Garbage : BinaryOp(OP_SUB, g)
OpMult == \E g \in Garbage : BinaryOp(OP_MULT, g)
OpDiv == \E g \in Garbage : BinaryOp(OP_DIV, g)

Next ==
    \/ Interpret
    \/ InterpretCompileError
    \/ \E byte \in Bytes, inside \in BOOLEAN : Fetch(byte, inside)
    \/ OpRet
    \/ OpConstantStep
    \/ OpTrue
    \/ OpFalse
    \/ OpNil
    \/ OpNegate
    \/ OpInc
    \/ OpDec
    \/ OpNot
    \/ OpAnd
    \/ OpOr
    \/ OpXor
    \/ OpEqual
    \/ OpNotEqual
    \/ OpGreaterEqual
    \/ OpGreater
    \/ OpLessEqual
    \/ OpLess
    \/ OpAdd
    \/ OpSub
    \/ OpMult
    \/ OpDiv
    \/ OpUnknown

Spec == Init /\ [][Next]_vars

\* ------------------------------------------------------------------ a VM in use
\* INTERPRET_OK does not reset the stack: what lay below the value that
\* OP_RET popped stays on the stack of the VM.  Every sequence of values a
\* chunk can compute is such a remainder; the numbers below are computed
\* from the constants 0, 1 and 2 (0 / 0 is NaN, 1 / 0 an infinity).
MaxSeed == 2

SeedNumbers ==
    {NumInt(0), NumNeg(NumInt(0)), NumInt(1), NumInt(2), NumNeg(NumInt(1)),
     NumDiv(NumInt(1), NumInt(2)), NumDiv(NumInt(1), NumInt(0)),
     NumNeg(NumDiv(NumInt(1), NumInt(0))), NumDiv(NumInt(0), NumInt(0))}

SeedValues ==
    {NIL_VAL, BOOL_VAL(TRUE), BOOL_VAL(FALSE)} \cup {NUMBER_VAL(x) : x \in SeedNumbers}

RECURSIVE PushAll(_, _)
PushAll(s, values) ==
    IF values = <<>> THEN s
    ELSE PushAll(pushStack(s, Head(values)), Tail(values))

SeedStacks == UNION {[1..k -> SeedValues] : k \in 0..MaxSeed}

\* the VM after an earlier call that pushed below, then pushed and returned
\* nil; the model grants it one more instruction
InitReused ==
    /\ \E below \in SeedStacks :
          stack = popStack(PushAll(initStack, below \o <<NIL_VAL>>))
    /\ ip = 0
    /\ chunk = [ended |-> FALSE]
    /\ instruction = OP_RET
    /\ a = NoValue
    /\ b = NoValue
    /\ pc = "returned"
    /\ res = "INTERPRET_OK"
    /\ out = <<NIL_VAL>>
    /\ err = <<>>
    /\ fetched = MaxFetch - 1
    /\ oob = {}

SpecReused == InitReused /\ [][Next]_vars


\* ------------------------------------------------------------------ properties
\* the live entries of the stack, bottom first
Live(s) == SubSeq(s.data, 1, s.count)
Top(s) == Slot(s, s.count - 1)
Second(s) == Slot(s, s.count - 2)

\* every byte read so far was a byte of the code of the chunk
InCode == ~chunk.ended

\* the handler of op, an opcode of the chunk, is about to run
Handling(op) == pc = "dispatch" /\ instruction = op /\ InCode
HandlingAny(ops) == pc = "dispatch" /\ instruction \in ops /\ InCode
\* the handler of op has run and the loop goes on
Handled(op) == pc = "fetch" /\ instruction = op /\ InCode

OrderingOps == {OP_GREATER, OP_GREATER_EQUAL, OP_LESS, OP_LESS_EQUAL}
ArithmeticOps == {OP_ADD, OP_SUB, OP_MULT, OP_DIV}
UnaryOps == {OP_NEGATE, OP_INC, OP_DEC}
LogicOps == {OP_AND, OP_OR, OP_XOR}
EqualityOps == {OP_EQUAL, OP_NOT_EQUAL}

TwoNumbers == HasTwo /\ IS_NUMBER(Top(stack)) /\ IS_NUMBER(Second(stack))

\* the relation an ordering opcode stands for
Relation(op, x, y) ==
    CASE op = OP_GREATER -> NumGreater(x, y)
      [] op = OP_GREATER_EQUAL -> NumGreaterEq(x, y)
      [] op = OP_LESS -> NumLess(x, y)
      [] op = OP_LESS_EQUAL -> NumLessEq(x, y)

\* C1: with the numbers a and b pushed in that order, each ordering opcode
\* replaces them by the Bool of its own relation between a and b.
C1_OrderingPushesOwnRelation ==
    [][\A op \in OrderingOps :
          (Handling(op) /\ TwoNumbers) =>
              /\ pc' = "fetch"
              /\ stack'.count = stack.count - 1
              /\ Top(stack') = BOOL_VAL(Relation(op, AS_NUMBER(Second(stack)),
                                                     AS_NUMBER(Top(stack))))]_vars

\* what Not-equal is to push for the operands va and vb
NotEqualExpected(va, vb) ==
    IF va.type # vb.type THEN TRUE
    ELSE CASE va.type = "VAL_NIL" -> FALSE
           [] va.type = "VAL_BOOL" -> AS_BOOL(va) # AS_BOOL(vb)
           [] va.type = "VAL_NUMBER" -> NumNotEq(AS_NUMBER(va), AS_NUMBER(vb))

\* C2: Not-equal pops both operands and pushes true when their tags differ,
\* the inequality of the payloads when the tags match (nil against nil is
\* false): the negation of what Equal pushes for the same operands.
C2_NotEqualNegatesEqual ==
    [][(Handling(OP_NOT_EQUAL) /\ HasTwo) =>
          /\ stack'.count = stack.count - 1
          /\ Top(stack') = BOOL_VAL(NotEqualExpected(Second(stack), Top(stack)))
          /\ Top(stack') = BOOL_VAL(~AS_BOOL(EqualityResult(OP_EQUAL, Second(stack),
                                                            Top(stack))))]_vars

IsNaNValue(v) == IS_NUMBER(v) /\ IsNaN(AS_NUMBER(v))

\* C3 as stated: Equal on a value pushed twice pushes true, Equal on values
\* of different tags pushes false, and Equal never ends in a runtime error.
C3_EqualReflexive ==
    [][/\ Handling(OP_EQUAL) => res' # "INTERPRET_RUNTIME_ERROR" /\ err' = err
       /\ (Handling(OP_EQUAL) /\ HasTwo) =>
          /\ pc' = "fetch"
          /\ stack'.count = stack.count - 1
          /\ Second(stack) = Top(stack) => Top(stack') = BOOL_VAL(TRUE)
          /\ Second(stack).type # Top(stack).type => Top(stack') = BOOL_VAL(FALSE)]_vars

\* C3, amended: Equal on a value other than NaN pushed twice pushes true
\* (NaN against NaN pushes false), Equal on values of different tags pushes
\* false, and Equal never ends in a runtime error.
C3_EqualReflexiveButNaN ==
    [][/\ Handling(OP_EQUAL) => res' # "INTERPRET_RUNTIME_ERROR" /\ err' = err
       /\ (Handling(OP_EQUAL) /\ HasTwo) =>
          /\ pc' = "fetch"
          /\ stack'.count = stack.count - 1
          /\ (Second(stack) = Top(stack) /\ ~IsNaNValue(Top(stack)))
                => Top(stack') = BOOL_VAL(TRUE)
          /\ (Second(stack) = Top(stack) /\ IsNaNValue(Top(stack)))
                => Top(stack') = BOOL_VAL(FALSE)
          /\ Second(stack).type # Top(stack).type => Top(stack') = BOOL_VAL(FALSE)]_vars

\* Equal has compared NaN with NaN
C3_Witness ==
    /\ Handled(OP_EQUAL)
    /\ a = b
    /\ IsNaNValue(a)
    /\ Top(stack) = BOOL_VAL(FALSE)

\* C4: a byte that is no opcode ends the run with a fatal failure; the loop
\* never goes on to fetch the byte after it.
C4_UnknownOpcodeIsFatal ==
    [][Handling(NoOpcode) => pc' \in {"aborted", "returned"}]_vars


\* what an arithmetic opcode computes
Arithmetic(op, x, y) ==
    CASE op = OP_ADD -> NumAdd(x, y)
      [] op = OP_SUB -> NumSub(x, y)
      [] op = OP_MULT -> NumMult(x, y)
      [] op = OP_DIV -> NumDiv(x, y)

\* C5: with the numbers a and b pushed in that order, an arithmetic opcode
\* pops b, then a, and pushes Number(a op b), a being the left operand; the
\* count drops by one.
C5_ArithmeticLeftOperandFirstPushed ==
    [][\A op \in ArithmeticOps :
          (Handling(op) /\ TwoNumbers) =>
              /\ pc' = "fetch"
              /\ b' = Top(stack)
              /\ a' = Second(stack)
              /\ stack'.count = stack.count - 1
              /\ Top(stack') = NUMBER_VAL(Arithmetic(op, AS_NUMBER(Second(stack)),
                                                         AS_NUMBER(Top(stack))))]_vars

\* Sub has computed 2 - 1 = 1 from 2 pushed first and 1 pushed second
C5_Witness ==
    /\ Handled(OP_SUB)
    /\ a = NUMBER_VAL(NumInt(2))
    /\ b = NUMBER_VAL(NumInt(1))
    /\ Top(stack) = NUMBER_VAL(NumInt(1))

\* the opcode finds a value that is not a number where it needs a number
FindsNonNumber ==
    \/ /\ HandlingAny(UnaryOps)
       /\ stack.count >= 1
       /\ ~IS_NUMBER(Top(stack))
    \/ /\ HandlingAny(ArithmeticOps \cup OrderingOps)
       /\ \/ stack.count >= 1 /\ ~IS_NUMBER(Top(stack))
          \/ stack.count >= 2 /\ ~IS_NUMBER(Second(stack))

\* C6: a unary or binary numeric opcode that finds a value that is not a
\* number ends the run with INTERPRET_RUNTIME_ERROR; nothing is pushed or
\* printed and the stack is empty when the run returns.
C6_TypeErrorEndsRunAndResetsStack ==
    [][FindsNonNumber =>
          /\ pc' = "returned"
          /\ res' = "INTERPRET_RUNTIME_ERROR"
          /\ stack'.count = 0
          /\ out' = out
          /\ out' = <<>>
          /\ Len(err') = Len(err) + 1]_vars

\* Add has failed on a stack of three values, the second not a number
C6_Witness ==
    /\ InCode
    /\ pc = "returned"
    /\ instruction = OP_ADD
    /\ res = "INTERPRET_RUNTIME_ERROR"
    /\ stack.count = 0
    /\ stack.capacity >= 3
    /\ IS_NUMBER(Slot(stack, 2))
    /\ ~IS_NUMBER(Slot(stack, 1))

\* C7: every handler addresses slots 0..count-1 only; a binary numeric opcode
\* on a stack of one value and a unary in-place opcode on an empty stack end
\* in the internal stack-underflow failure.
C7_AccessesInsideLiveEntries ==
    [][/\ (InCode /\ InCode') => "stack" \notin oob'
       /\ \/ HandlingAny(UnaryOps) /\ stack.count = 0
          \/ HandlingAny(ArithmeticOps \cup OrderingOps) /\ stack.count = 1
          => pc' = "aborted"]_vars

\* the opcode pops from an empty stack, at its first or at its second pop
PopsFromEmpty ==
    \/ HandlingAny({OP_RET, OP_NOT} \cup LogicOps \cup EqualityOps) /\ stack.count = 0
    \/ HandlingAny(LogicOps \cup EqualityOps) /\ stack.count = 1

\* C8: an opcode that pops from an empty stack pushes and prints nothing and
\* aborts the run, which is no INTERPRET_RUNTIME_ERROR; nothing follows the
\* abort, and the count is never negative.
C8_PopFromEmptyAborts ==
    [][/\ pc # "aborted"
       /\ stack'.count >= 0
       /\ PopsFromEmpty =>
             /\ pc' = "aborted"
             /\ stack'.count = 0
             /\ UNCHANGED <<res, out, err>>
             /\ res' # "INTERPRET_RUNTIME_ERROR"]_vars

\* Equal has popped the only value and aborted at its second pop
C8_Witness ==
    /\ InCode
    /\ pc = "aborted"
    /\ instruction = OP_EQUAL
    /\ b # NoValue
    /\ a = NoValue
    /\ stack.count = 0

\* pops and pushes of the handlers that only push and pop
Pops(op) ==
    IF op \in {OP_RET, OP_NOT} THEN 1
    ELSE IF op \in LogicOps \cup EqualityOps \cup ArithmeticOps \cup OrderingOps THEN 2
    ELSE 0
Pushes(op) == IF op \in {OP_RET, NoOpcode} THEN 0 ELSE 1

\* C9: the stack is a LIFO sequence, also across reallocations: a handler
\* that completes leaves the entries below its operands as they were, its
\* pops return the entries from the top down, and the count changes by the
\* pushes minus the pops.
C9_StackIsLifo ==
    [][(HandlingAny(Bytes \ UnaryOps)
          /\ (pc' = "fetch" \/ res' = "INTERPRET_OK")) =>
          LET keep == stack.count - Pops(instruction)
          IN  /\ keep >= 0
              /\ stack'.count = keep + Pushes(instruction)
              /\ SubSeq(Live(stack'), 1, keep) = SubSeq(Live(stack), 1, keep)
              /\ Pops(instruction) = 2 => b' = Top(stack) /\ a' = Second(stack)
              /\ instruction = OP_RET => out' = Append(out, Top(stack))
              /\ instruction = OP_TRUE => Top(stack') = BOOL_VAL(TRUE)
              /\ instruction = OP_FALSE => Top(stack') = BOOL_VAL(FALSE)
              /\ instruction = OP_NIL => Top(stack') = NIL_VAL
              /\ instruction = OP_CONSTANT => IS_NUMBER(Top(stack'))]_vars

\* three pushes have reallocated the buffer twice and the entries are intact
C9_Witness ==
    /\ Handled(OP_NIL)
    /\ stack.capacity >= 4 * STACK_DEF_CAP
    /\ stack.count = 2 * STACK_DEF_CAP + 1
    /\ SubSeq(Live(stack), stack.count - 2, stack.count)
          = <<BOOL_VAL(TRUE), BOOL_VAL(FALSE), NIL_VAL>>

\* C10: 0 <= count <= capacity in every state.
C10_CountWithinCapacity ==
    /\ 0 <= stack.count
    /\ stack.count <= stack.capacity

\* a call starts on a stack that an earlier call has grown, filled and then
\* reset at a runtime error
C10_Witness ==
    /\ InCode
    /\ pc = "fetch"
    /\ ip = 0
    /\ fetched = 3
    /\ stack.count = 0
    /\ stack.capacity = 2 * STACK_DEF_CAP
    /\ Slot(stack, 1) # UNINIT

\* the call of interpretChunk is inside the loop of run()
Running == pc \in {"fetch", "dispatch"}

\* C11: a call that returns INTERPRET_OK has printed one value, the value
\* OP_RET popped, and no diagnostic; a call that returns
\* INTERPRET_RUNTIME_ERROR has printed one diagnostic (message and line), at
\* the instruction that failed, and no value; while the loop runs nothing is
\* printed, and once the call has returned no instruction is fetched until
\* the next call starts at offset 0.
C11_OneValueOrOneDiagnostic ==
    [][/\ Running' => out' = <<>> /\ err' = <<>> /\ res' = "none"
       /\ res' = "INTERPRET_OK" =>
             /\ pc' = "returned"
             /\ Len(out') = 1
             /\ err' = <<>>
       /\ res' = "INTERPRET_RUNTIME_ERROR" =>
             /\ pc' = "returned"
             /\ Len(err') = 1
             /\ out' = <<>>
       /\ (Running /\ res' = "INTERPRET_OK") =>
             /\ pc = "dispatch"
             /\ instruction = OP_RET
             /\ stack.count >= 1
             /\ out' = <<Top(stack)>>
       /\ (Running /\ res' = "INTERPRET_RUNTIME_ERROR") =>
             /\ pc = "dispatch"
             /\ instruction \in {OP_CONSTANT} \cup UnaryOps \cup ArithmeticOps
                                \cup OrderingOps
       /\ pc = "returned" =>
             /\ fetched' = fetched
             /\ pc' = "returned" \/ (pc' = "fetch" /\ ip' = 0)]_vars

\* the third instruction of a call has failed: one diagnostic, no value
C11_Witness ==
    /\ InCode
    /\ pc = "returned"
    /\ res = "INTERPRET_RUNTIME_ERROR"
    /\ fetched = 3
    /\ ip = 3
    /\ Len(err) = 1
    /\ out = <<>>

\* the message of the diagnostic of each opcode that tests for numbers
MessageOf(op) ==
    IF op \in ArithmeticOps \cup OrderingOps
    THEN "Operands must be numbers."
    ELSE "Operand must be a number."

\* C12: the opcode of the instruction being handled was read at offset
\* ip - 1 (the fetch moves the cursor by one); when the instruction ends the
\* call with INTERPRET_RUNTIME_ERROR, OP_CONSTANT with its operand byte
\* included, the line of the diagnostic is the line of that offset.
C12_ErrorLineIsLineOfOpcode ==
    [][/\ (pc = "fetch" /\ pc' = "dispatch") => ip' = ip + 1
       /\ (pc = "dispatch" /\ InCode /\ res' = "INTERPRET_RUNTIME_ERROR") =>
             /\ ip' = ip
             /\ err' = <<[message |-> MessageOf(instruction),
                          line |-> LineOf(ip - 1)]>>]_vars

\* OP_CONSTANT at offset 2, its operand at offset 3, has failed: the
\* diagnostic has the line of offset 2
C12_Witness ==
    /\ InCode
    /\ pc = "returned"
    /\ res = "INTERPRET_RUNTIME_ERROR"
    /\ instruction = OP_CONSTANT
    /\ ip = 3
    /\ fetched = 2
    /\ err = <<[message |-> "Operand must be a number.", line |-> LineOf(2)]>>

\* C13: OP_CONSTANT takes the byte after its opcode as an index of the
\* constant pool.  When the constant at that index is a number it is pushed
\* on top of the entries the stack held, the count grows by one and the
\* cursor moves past the operand, two bytes after the opcode; when it is not
\* a number the call returns INTERPRET_RUNTIME_ERROR with one diagnostic and
\* nothing is written to the stack.
C13_LoadConstant ==
    [][(Handling(OP_CONSTANT) /\ InCode') =>
          \E index \in PoolIndices :
             LET constant == ConstantPool[index + 1]
             IN  IF IS_NUMBER(constant)
                 THEN /\ pc' = "fetch"
                      /\ stack'.count = stack.count + 1
                      /\ Top(stack') = constant
                      /\ SubSeq(Live(stack'), 1, stack.count) = Live(stack)
                      /\ ip' = ip + 1
                      /\ UNCHANGED <<res, out, err>>
                 ELSE /\ pc' = "returned"
                      /\ res' = "INTERPRET_RUNTIME_ERROR"
                      /\ stack'.count = 0
                      /\ stack'.data = stack.data
                      /\ stack'.capacity = stack.capacity
                      /\ Len(err') = 1
                      /\ out' = <<>>]_vars

\* the second OP_CONSTANT of a chunk has pushed 5 above 2 and the cursor is
\* at offset 4
C13_Witness ==
    /\ Handled(OP_CONSTANT)
    /\ ip = 4
    /\ Live(stack) = <<NUMBER_VAL(NumInt(2)), NUMBER_VAL(NumInt(5))>>

\* a value is truthy unless it is nil or false
Truthy(v) == v # NIL_VAL /\ v # BOOL_VAL(FALSE)

\* the connective a logical opcode stands for
Connective(op, x, y) ==
    CASE op = OP_AND -> x /\ y
      [] op = OP_OR -> x \/ y
      [] op = OP_XOR -> (x /\ ~y) \/ (~x /\ y)

\* C14: OP_NOT, OP_AND, OP_OR and OP_XOR take nil, booleans and numbers and
\* never end in INTERPRET_RUNTIME_ERROR.  OP_NOT replaces the top by the
\* Bool of its falsiness, the count and the entries below unchanged; a binary
\* logical opcode pops b, then a, and pushes the Bool of its connective of
\* truthy(a) and truthy(b), the count one less and the entries below
\* unchanged.
C14_LogicalOpsTakeEveryVariant ==
    [][/\ HandlingAny(LogicOps \cup {OP_NOT}) =>
             /\ res' # "INTERPRET_RUNTIME_ERROR"
             /\ err' = err
       /\ (Handling(OP_NOT) /\ stack.count >= 1) =>
             /\ pc' = "fetch"
             /\ stack'.count = stack.count
             /\ Top(stack') = BOOL_VAL(~Truthy(Top(stack)))
             /\ SubSeq(Live(stack'), 1, stack.count - 1)
                   = SubSeq(Live(stack), 1, stack.count - 1)
       /\ \A op \in LogicOps :
             (Handling(op) /\ HasTwo) =>
                /\ pc' = "fetch"
                /\ b' = Top(stack)
                /\ a' = Second(stack)
                /\ stack'.count = stack.count - 1
                /\ Top(stack') = BOOL_VAL(Connective(op, Truthy(Second(stack)),
                                                         Truthy(Top(stack))))
                /\ SubSeq(Live(stack'), 1, stack.count - 2)
                      = SubSeq(Live(stack), 1, stack.count - 2)]_vars

\* OP_XOR of the number 0, truthy, and nil has pushed true
C14_Witness ==
    /\ Handled(OP_XOR)
    /\ a = NUMBER_VAL(NumInt(0))
    /\ b = NIL_VAL
    /\ Live(stack) = <<BOOL_VAL(TRUE)>>

\* C15: interpretChunk returns INTERPRET_COMPILE_ERROR only from outside the
\* loop of run(), at a call whose compile() failed: that call fetches
\* nothing, prints nothing and leaves the stack and the cursor as they were;
\* the loop is not running in a state with that result, and no step of the
\* loop yields it.
C15_CompileErrorOnlyFromFrontEnd ==
    [][/\ res' = "INTERPRET_COMPILE_ERROR" =>
             /\ pc \in {"idle", "returned"}
             /\ pc' = "returned"
             /\ stack' = stack
             /\ ip' = ip
             /\ fetched' = fetched
             /\ out' = <<>>
             /\ err' = <<>>
       /\ Running => res' \in {"none", "INTERPRET_OK", "INTERPRET_RUNTIME_ERROR"}
       /\ Running' => res' = "none"]_vars

\* compile() has failed on a VM whose earlier call ran three bytes and left
\* a value on the stack: cursor and stack are those of the earlier call
C15_Witness ==
    /\ res = "INTERPRET_COMPILE_ERROR"
    /\ pc = "returned"
    /\ ip = 3
    /\ fetched = 3
    /\ stack.count = 1

\* the opcodes that pop before they do anything else
PoppingOps == {OP_RET, OP_NOT} \cup LogicOps \cup EqualityOps

\* C16: what a call does depends on its chunk alone, not on earlier calls on
\* the VM.  A chunk whose first opcode pops finds the stack of a new VM
\* empty and the call aborts; so such a chunk aborts on every VM, whatever
\* an earlier call that returned INTERPRET_OK left on the stack: it prints
\* nothing and returns nothing.
C16_CallDependsOnChunkAlone ==
    [][(HandlingAny(PoppingOps) /\ ip = 1) =>
          /\ pc' = "aborted"
          /\ out' = <<>>
          /\ res' = "none"]_vars

\* -n, n + 1 and n - 1 for the number n
UnaryExpected(op, n) ==
    CASE op = OP_NEGATE -> NumNeg(n)
      [] op = OP_INC -> NumAdd(n, NumInt(1))
      [] op = OP_DEC -> NumSub(n, NumInt(1))

\* C17: with the number n on top of the stack, OP_NEGATE, OP_INC and OP_DEC
\* put -n, n + 1 and n - 1 in the slot of the top; the count, the capacity
\* and every other slot of the buffer stay as they are, nothing is printed
\* and the loop goes on.  OP_INC makes 6 of 5 and 7 of 6.
C17_UnaryInPlaceFrame ==
    [][/\ \A op \in UnaryOps :
             (Handling(op) /\ stack.count >= 1 /\ IS_NUMBER(Top(stack))) =>
                /\ pc' = "fetch"
                /\ stack'.count = stack.count
                /\ stack'.capacity = stack.capacity
                /\ Top(stack') = NUMBER_VAL(UnaryExpected(op, AS_NUMBER(Top(stack))))
                /\ \A i \in 1..stack.capacity :
                      i # stack.count => stack'.data[i] = stack.data[i]
                /\ UNCHANGED <<ip, res, out, err>>
       /\ (Handling(OP_INC) /\ stack.count >= 1
             /\ Top(stack) = NUMBER_VAL(NumInt(5)))
             => Top(stack') = NUMBER_VAL(NumInt(6))
       /\ (Handling(OP_INC) /\ stack.count >= 1
             /\ Top(stack) = NUMBER_VAL(NumInt(6)))
             => Top(stack') = NUMBER_VAL(NumInt(7))]_vars

\* the chunk OP_CONSTANT 5, OP_INC, OP_INC has left 7 on the stack
C17_Witness ==
    /\ Handled(OP_INC)
    /\ ip = 4
    /\ fetched = 3
    /\ Live(stack) = <<NUMBER_VAL(NumInt(7))>>

\* C18: the fetch moves the cursor forward by one byte and a handler after
\* which the loop goes on moves it by one more byte for OP_CONSTANT and by
\* none for every other opcode; a call that has read bytes of its chunk
\* only leaves the loop only by returning INTERPRET_OK from OP_RET or by
\* returning INTERPRET_RUNTIME_ERROR with a diagnostic.
C18_CallEndsWithOkOrRuntimeError ==
    [][/\ (pc = "fetch" /\ Running') => pc' = "dispatch" /\ ip' = ip + 1
       /\ (pc = "dispatch" /\ Running') =>
             /\ pc' = "fetch"
             /\ ip' = IF instruction = OP_CONSTANT THEN ip + 1 ELSE ip
       /\ (Running /\ InCode /\ InCode' /\ ~Running') =>
             /\ pc' = "returned"
             /\ \/ res' = "INTERPRET_OK" /\ instruction = OP_RET
                \/ res' = "INTERPRET_RUNTIME_ERROR" /\ Len(err') = 1]_vars

\* the opcodes that push without popping
PushingOps == {OP_CONSTANT, OP_TRUE, OP_FALSE, OP_NIL}

RECURSIVE IsPowerOfTwo(_)
IsPowerOfTwo(n) == n = 1 \/ (n > 1 /\ n % 2 = 0 /\ IsPowerOfTwo(n \div 2))

\* C19: a step changes the capacity exactly when it is a push on a stack
\* whose count equals its capacity, and then the capacity doubles: the
\* opcodes that pop before they push find room, and the pops, the peeks,
\* the in-place updates and the reset of runtimeError leave the capacity
\* alone.  The capacity never shrinks and is STACK_DEF_CAP times a power of
\* two.
C19_CapacityDoublesOnFullPush ==
    [][/\ stack'.capacity \in {stack.capacity, 2 * stack.capacity}
       /\ stack'.capacity # stack.capacity <=>
             /\ pc = "dispatch"
             /\ instruction \in PushingOps
             /\ pc' = "fetch"
             /\ stack.count = stack.capacity
       /\ (pc = "dispatch" /\ instruction \notin PushingOps)
             => stack'.capacity = stack.capacity
       /\ res' = "INTERPRET_RUNTIME_ERROR" =>
             stack'.count = 0 /\ stack'.capacity = stack.capacity
       /\ stack'.capacity >= stack.capacity
       /\ stack'.capacity % STACK_DEF_CAP = 0
       /\ IsPowerOfTwo(stack'.capacity \div STACK_DEF_CAP)]_vars

\* three pushes have doubled the capacity twice and the reset of a runtime
\* error has kept it
C19_Witness ==
    /\ InCode
    /\ pc = "returned"
    /\ res = "INTERPRET_RUNTIME_ERROR"
    /\ stack.count = 0
    /\ stack.capacity = 4 * STACK_DEF_CAP

====
